---- MODULE Spec2Model ----
(***************************************************************************)
(* A model of src/AstArgument.h: the argument nodes of the Datalog AST.    *)
(*                                                                         *)
(* Nodes live in a heap of cells; a std::unique_ptr is the address of the  *)
(* cell it owns (0 is nullptr).  `roots` are the nodes owned by the client *)
(* (the parser or a rewrite pass).  Each public member function is one     *)
(* action; an assertion that fails ends the run (status = "aborted").      *)
(* Assertions are modelled as compiled in (no NDEBUG).                      *)
(***************************************************************************)
EXTENDS Integers, Sequences, FiniteSets, TLC

(* ------------------------------ bounds -------------------------------- *)

\* number of heap cells
MaxNodes == 4
\* largest argument index / operand count the client tries
MaxIdx == 2
\* width of the domain word in bits (scaled down from RamDomain's width)
WordBits == 3

VARIABLES heap, roots, symTable, status, last, cl, vocab

vars == <<heap, roots, symTable, status, last, cl, vocab>>

Addr == 1..MaxNodes

(* ------------------------------ payloads ------------------------------ *)

VarNames == {"x", "y"}
Symbols == {"a", "b"}
FunctorNames == {"foo", "bar"}
TypeNames == {"number", "symbol"}
AtomNames == {"p"}
AggregatorOps == {"min", "max", "count", "sum"}
\* the source locations the parser gives; "" is the default one
Locations == {"rules.dl:1"}
FunctorOps == {"NEG", "ADD"}

TwoTo(n) == IF n = 0 THEN 1 ELSE IF n = 1 THEN 2 ELSE IF n = 2 THEN 4
            ELSE IF n = 3 THEN 8 ELSE IF n = 4 THEN 16 ELSE IF n = 5 THEN 32 ELSE 64

WordCount == TwoTo(WordBits)
HalfWord == TwoTo(WordBits - 1)
\* a float is a sign bit, one exponent bit and the remaining mantissa bits
ManCount == TwoTo(WordBits - 2)

RamDomainValues == (0 - HalfWord)..(HalfWord - 1)

NumericKinds == {"RamSigned", "RamUnsigned", "RamFloat"}

ValuesOf(numericType) ==
    CASE numericType = "RamSigned" -> RamDomainValues
      [] numericType = "RamUnsigned" -> 0..(WordCount - 1)
      [] numericType = "RamFloat" -> [sign : {0, 1}, exp : {0, 1}, man : 0..(ManCount - 1)]

\* the object representation of a value: its bits as an unsigned number
BitsOf(numericType, value) ==
    CASE numericType = "RamSigned" -> IF value < 0 THEN value + WordCount ELSE value
      [] numericType = "RamUnsigned" -> value
      [] numericType = "RamFloat" ->
            value.sign * HalfWord + value.exp * ManCount + value.man

\* the value of numericType whose object representation is `bits`
FromBits(numericType, bits) ==
    CASE numericType = "RamSigned" -> IF bits >= HalfWord THEN bits - WordCount ELSE bits
      [] numericType = "RamUnsigned" -> bits
      [] numericType = "RamFloat" ->
            [sign |-> bits \div HalfWord,
             exp |-> (bits % HalfWord) \div ManCount,
             man |-> bits % ManCount]

\* ramBitCast<RamDomain>(value): RamDomain is the signed word
ramBitCastTo(numericType, value) == FromBits("RamSigned", BitsOf(numericType, value))

\* ramBitCast<numericType>(word)
ramBitCastFrom(numericType, word) == FromBits(numericType, BitsOf("RamSigned", word))

(* --------------------------- functor registry ------------------------- *)

functorOpArity(op) == IF op = "NEG" THEN 1 ELSE 2

isValidFunctorOpArity(op, count) == count = functorOpArity(op)

(* ------------------------------ the heap ------------------------------ *)

FreeCell ==
    [kind |-> "free", name |-> "", ramRepresentation |-> 0, function |-> "",
     args |-> <<>>, value |-> 0, type |-> "", fun |-> "", expr |-> 0,
     body |-> <<>>, number |-> 0, srcLoc |-> ""]

IsFree(h, a) == h[a].kind = "free"
Live(h) == {a \in Addr : ~IsFree(h, a)}
FreeCount(h) == Cardinality({a \in Addr : IsFree(h, a)})

\* operator new: the lowest free cell
Alloc(h) == CHOOSE a \in Addr : IsFree(h, a) /\ \A b \in Addr : b < a => ~IsFree(h, b)

SeqRange(s) == {s[i] : i \in 1..Len(s)}

\* the cells a node owns through its unique_ptr members
Owned(c) ==
    SeqRange(c.args) \cup SeqRange(c.body)
        \cup (IF c.value # 0 THEN {c.value} ELSE {})
        \cup (IF c.expr # 0 THEN {c.expr} ELSE {})

RECURSIVE ReachN(_, _, _)
ReachN(h, as, n) ==
    IF n = 0 THEN as
    ELSE LET more == as \cup UNION {Owned(h[a]) : a \in as}
         IN IF more = as THEN as ELSE ReachN(h, more, n - 1)

\* a node and everything below it
Reach(h, a) == ReachN(h, {a}, MaxNodes)

\* ~unique_ptr: the node and all it owns are destroyed
Destroy(h, a) == [b \in Addr |-> IF b \in Reach(h, a) THEN FreeCell ELSE h[b]]

\* the tree below a node as a value: each pointer replaced by the tree it
\* points to (a null pointer by the empty sequence)
RECURSIVE Deep(_, _)
RECURSIVE DeepAll(_, _)
DeepAll(h, s) == IF s = <<>> THEN <<>> ELSE <<Deep(h, Head(s))>> \o DeepAll(h, Tail(s))
Deep(h, a) ==
    [h[a] EXCEPT !.args = DeepAll(h, @), !.body = DeepAll(h, @),
                 !.value = IF @ = 0 THEN <<>> ELSE <<Deep(h, @)>>,
                 !.expr = IF @ = 0 THEN <<>> ELSE <<Deep(h, @)>>]

(* ---------------------------- constructors ---------------------------- *)

AstVariable(n) == [FreeCell EXCEPT !.kind = "AstVariable", !.name = n]

AstUnnamedVariable == [FreeCell EXCEPT !.kind = "AstUnnamedVariable"]

AstCounter == [FreeCell EXCEPT !.kind = "AstCounter"]

AstConstant(kind, i) == [FreeCell EXCEPT !.kind = kind, !.ramRepresentation = i]

\* SymbolTable: the interned strings in order of interning; the index of the
\* first is 0
lookupTable(t, s) == IF \E i \in 1..Len(t) : t[i] = s THEN t ELSE Append(t, s)
lookup(t, s) == (CHOOSE i \in 1..Len(lookupTable(t, s)) : lookupTable(t, s)[i] = s) - 1

AstStringConstant(t, c) == AstConstant("AstStringConstant", lookup(t, c))

AstStringConstantIndex(index) == AstConstant("AstStringConstant", index)

ConstantKind(numericType) ==
    CASE numericType = "RamSigned" -> "AstNumberConstant"
      [] numericType = "RamUnsigned" -> "AstUnsignedConstant"
      [] numericType = "RamFloat" -> "AstFloatConstant"

NumericTypeOf(kind) ==
    CASE kind = "AstNumberConstant" -> "RamSigned"
      [] kind = "AstUnsignedConstant" -> "RamUnsigned"
      [] kind = "AstFloatConstant" -> "RamFloat"

NumericConstantKinds == {"AstNumberConstant", "AstUnsignedConstant", "AstFloatConstant"}

\* the constant built with a conversion of the value that drops the fraction
\* of a float, in place of the bit cast
AstNumericConstant_converted(numericType, value) ==
    AstConstant(ConstantKind(numericType),
                ramBitCastTo(numericType, IF numericType = "RamFloat"
                                          THEN [value EXCEPT !.man = 0] ELSE value))

AstNumericConstant(numericType, value) ==
    AstConstant(ConstantKind(numericType), ramBitCastTo(numericType, value))

AstNullConstant == AstConstant("AstNullConstant", 0)

AstFunctor(kind, operands) == [FreeCell EXCEPT !.kind = kind, !.args = operands]

AstIntrinsicFunctorVector(function, operands) ==
    [AstFunctor("AstIntrinsicFunctor", operands) EXCEPT !.function = function]

AstUserDefinedFunctor(name, args) ==
    [AstFunctor("AstUserDefinedFunctor", args) EXCEPT !.name = name]

AstRecordInit == [FreeCell EXCEPT !.kind = "AstRecordInit"]

AstTypeCast(value, type) ==
    [FreeCell EXCEPT !.kind = "AstTypeCast", !.value = value, !.type = type]

AstAggregator(fun) == [FreeCell EXCEPT !.kind = "AstAggregator", !.fun = fun, !.expr = 0]

AstSubroutineArgument(n) == [FreeCell EXCEPT !.kind = "AstSubroutineArgument", !.number = n]

\* the external literal type: an atom with a name
AstLiteral(n) == [FreeCell EXCEPT !.kind = "AstLiteral", !.name = n]


(* ------------------------- source locations --------------------------- *)

\* AstNode::setSrcLoc / getSrcLoc
setSrcLoc(cell, l) == [cell EXCEPT !.srcLoc = l]
getSrcLoc(cell) == cell.srcLoc

(* ------------------------------- clone -------------------------------- *)

\* new T(...): the cell is taken from the heap and returned with the heap
New(h, cell) == LET p == Alloc(h) IN [h |-> [h EXCEPT ![p] = cell], p |-> p]

RECURSIVE clone(_, _)
RECURSIVE cloneAll(_, _)

\* for (auto& cur : s) out.emplace_back(cur->clone());
cloneAll(h, s) ==
    IF s = <<>> THEN [h |-> h, ps |-> <<>>]
    ELSE LET first == clone(h, Head(s))
             rest == cloneAll(first.h, Tail(s))
         IN [h |-> rest.h, ps |-> <<first.p>> \o rest.ps]

AstVariable_clone(h, a) ==
    New(h, setSrcLoc(AstVariable(h[a].name), getSrcLoc(h[a])))

AstUnnamedVariable_clone(h, a) ==
    New(h, setSrcLoc(AstUnnamedVariable, getSrcLoc(h[a])))

AstCounter_clone(h, a) ==
    New(h, setSrcLoc(AstCounter, getSrcLoc(h[a])))

AstStringConstant_clone(h, a) ==
    New(h, setSrcLoc(AstStringConstantIndex(h[a].ramRepresentation), getSrcLoc(h[a])))

AstNumericConstant_getConstant(c) ==
    ramBitCastFrom(NumericTypeOf(c.kind), c.ramRepresentation)

AstNumericConstant_clone(h, a) ==
    New(h, setSrcLoc(AstNumericConstant(NumericTypeOf(h[a].kind),
                                        AstNumericConstant_getConstant(h[a])),
                     getSrcLoc(h[a])))

AstNullConstant_clone(h, a) ==
    New(h, setSrcLoc(AstNullConstant, getSrcLoc(h[a])))

AstIntrinsicFunctor_clone(h, a) ==
    LET argsCopy == cloneAll(h, h[a].args)
    IN New(argsCopy.h,
           setSrcLoc(AstIntrinsicFunctorVector(h[a].function, argsCopy.ps), getSrcLoc(h[a])))

\* the clone that keeps the arguments and the location but not the name
AstUserDefinedFunctor_clone_unnamed(h, a) ==
    LET res == New(h, AstUserDefinedFunctor("", <<>>))
        copies == cloneAll(res.h, h[a].args)
    IN [h |-> [copies.h EXCEPT ![res.p] =
                  [setSrcLoc(@, getSrcLoc(h[a])) EXCEPT !.args = copies.ps]],
        p |-> res.p]

AstUserDefinedFunctor_clone(h, a) ==
    LET res == New(h, AstUserDefinedFunctor("", <<>>))
        copies == cloneAll(res.h, h[a].args)
    IN [h |-> [copies.h EXCEPT ![res.p] =
                  [setSrcLoc(@, getSrcLoc(h[a])) EXCEPT !.args = copies.ps, !.name = h[a].name]],
        p |-> res.p]

AstRecordInit_clone(h, a) ==
    LET res == New(h, AstRecordInit)
        copies == cloneAll(res.h, h[a].args)
    IN [h |-> [copies.h EXCEPT ![res.p] =
                  [setSrcLoc(@, getSrcLoc(h[a])) EXCEPT !.args = copies.ps]],
        p |-> res.p]

\* the clone that points at the value of the original in place of a copy
AstTypeCast_clone_shallow(h, a) ==
    New(h, setSrcLoc(AstTypeCast(h[a].value, h[a].type), getSrcLoc(h[a])))

AstTypeCast_clone(h, a) ==
    LET copy == clone(h, h[a].value)
    IN New(copy.h, setSrcLoc(AstTypeCast(copy.p, h[a].type), getSrcLoc(h[a])))

\* AstAggregator::clone is defined outside the header
AstAggregator_clone(h, a) ==
    LET res == New(h, AstAggregator(h[a].fun))
        e == IF h[a].expr # 0 THEN clone(res.h, h[a].expr) ELSE [h |-> res.h, p |-> 0]
        copies == cloneAll(e.h, h[a].body)
    IN [h |-> [copies.h EXCEPT ![res.p] =
                  [setSrcLoc(@, getSrcLoc(h[a])) EXCEPT !.expr = e.p, !.body = copies.ps]],
        p |-> res.p]

AstSubroutineArgument_clone(h, a) ==
    New(h, setSrcLoc(AstSubroutineArgument(h[a].number), getSrcLoc(h[a])))

AstLiteral_clone(h, a) ==
    New(h, setSrcLoc(AstLiteral(h[a].name), getSrcLoc(h[a])))

\* the virtual call node->clone()
clone(h, a) ==
    CASE h[a].kind = "AstVariable" -> AstVariable_clone(h, a)
      [] h[a].kind = "AstUnnamedVariable" -> AstUnnamedVariable_clone(h, a)
      [] h[a].kind = "AstCounter" -> AstCounter_clone(h, a)
      [] h[a].kind = "AstStringConstant" -> AstStringConstant_clone(h, a)
      [] h[a].kind \in NumericConstantKinds -> AstNumericConstant_clone(h, a)
      [] h[a].kind = "AstNullConstant" -> AstNullConstant_clone(h, a)
      [] h[a].kind = "AstIntrinsicFunctor" -> AstIntrinsicFunctor_clone(h, a)
      [] h[a].kind = "AstUserDefinedFunctor" -> AstUserDefinedFunctor_clone(h, a)
      [] h[a].kind = "AstRecordInit" -> AstRecordInit_clone(h, a)
      [] h[a].kind = "AstTypeCast" -> AstTypeCast_clone(h, a)
      [] h[a].kind = "AstAggregator" -> AstAggregator_clone(h, a)
      [] h[a].kind = "AstSubroutineArgument" -> AstSubroutineArgument_clone(h, a)
      [] h[a].kind = "AstLiteral" -> AstLiteral_clone(h, a)

(* --------------------------- child enumeration ------------------------ *)

AstArgument_getChildNodes(c) == <<>>

AstFunctor_getChildNodes(c) == AstArgument_getChildNodes(c) \o c.args

AstRecordInit_getChildNodes(c) == AstArgument_getChildNodes(c) \o c.args

AstTypeCast_getChildNodes(c) == Append(AstArgument_getChildNodes(c), c.value)

\* AstAggregator::getChildNodes is defined outside the header
AstAggregator_getChildNodes(c) ==
    (IF c.expr # 0 THEN Append(AstArgument_getChildNodes(c), c.expr)
     ELSE AstArgument_getChildNodes(c)) \o c.body

FunctorKinds == {"AstIntrinsicFunctor", "AstUserDefinedFunctor"}

\* the virtual call node->getChildNodes()
getChildNodes(c) ==
    CASE c.kind \in FunctorKinds -> AstFunctor_getChildNodes(c)
      [] c.kind = "AstRecordInit" -> AstRecordInit_getChildNodes(c)
      [] c.kind = "AstTypeCast" -> AstTypeCast_getChildNodes(c)
      [] c.kind = "AstAggregator" -> AstAggregator_getChildNodes(c)
      [] OTHER -> AstArgument_getChildNodes(c)

(* ------------------------------ equality ------------------------------ *)

\* The outcome of a comparison: "true", "false", or "abort" when an
\* assertion fails.  Node a is read in heap h and node b in heap g, so that a
\* node can be compared with an earlier state of itself.

Bool(b) == IF b THEN "true" ELSE "false"

ConstantKinds == NumericConstantKinds \cup {"AstStringConstant", "AstNullConstant"}

\* x && y on outcomes, y evaluated only when x is true
AndThen(x, y) == IF x # "true" THEN x ELSE y

RECURSIVE operator_eq(_, _, _, _)
RECURSIVE equal_targets(_, _, _, _)

\* Util.h equal_targets: same length and pairwise *a == *b
equal_targets(h, s, g, t) ==
    IF Len(s) # Len(t) THEN "false"
    ELSE IF s = <<>> THEN "true"
    ELSE AndThen(operator_eq(h, Head(s), g, Head(t)), equal_targets(h, Tail(s), g, Tail(t)))

\* Util.h equal_ptr: both null, or both set and *a == *b
equal_ptr(h, a, g, b) ==
    IF a = 0 /\ b = 0 THEN "true"
    ELSE IF a = 0 \/ b = 0 THEN "false"
    ELSE operator_eq(h, a, g, b)

AstVariable_equal(h, a, g, b) ==
    IF g[b].kind # "AstVariable" THEN "abort"
    ELSE Bool(h[a].name = g[b].name)

AstUnnamedVariable_equal(h, a, g, b) ==
    IF g[b].kind # "AstUnnamedVariable" THEN "abort" ELSE "true"

AstCounter_equal(h, a, g, b) ==
    IF g[b].kind # "AstCounter" THEN "abort" ELSE "true"

AstConstant_equal(h, a, g, b) ==
    IF g[b].kind \notin ConstantKinds THEN "abort"
    ELSE Bool(h[a].ramRepresentation = g[b].ramRepresentation)

AstIntrinsicFunctor_equal(h, a, g, b) ==
    IF g[b].kind # "AstIntrinsicFunctor" THEN "abort"
    ELSE AndThen(Bool(h[a].function = g[b].function),
                 equal_targets(h, h[a].args, g, g[b].args))

AstUserDefinedFunctor_equal(h, a, g, b) ==
    IF g[b].kind # "AstUserDefinedFunctor" THEN "abort"
    ELSE AndThen(Bool(h[a].name = g[b].name),
                 equal_targets(h, h[a].args, g, g[b].args))

AstRecordInit_equal(h, a, g, b) ==
    IF g[b].kind # "AstRecordInit" THEN "abort"
    ELSE equal_targets(h, h[a].args, g, g[b].args)

AstTypeCast_equal(h, a, g, b) ==
    IF g[b].kind # "AstTypeCast" THEN "abort"
    ELSE AndThen(Bool(h[a].type = g[b].type),
                 operator_eq(h, h[a].value, g, g[b].value))

AstAggregator_equal(h, a, g, b) ==
    IF g[b].kind # "AstAggregator" THEN "abort"
    ELSE AndThen(Bool(h[a].fun = g[b].fun),
                 AndThen(equal_ptr(h, h[a].expr, g, g[b].expr),
                         equal_targets(h, h[a].body, g, g[b].body)))

AstSubroutineArgument_equal(h, a, g, b) ==
    IF g[b].kind # "AstSubroutineArgument" THEN "abort"
    ELSE Bool(h[a].number = g[b].number)

\* the external literal type: comparable by its atom name
AstLiteral_equal(h, a, g, b) ==
    IF g[b].kind # "AstLiteral" THEN "abort"
    ELSE Bool(h[a].name = g[b].name)

\* the virtual call this->equal(node)
equal(h, a, g, b) ==
    CASE h[a].kind = "AstVariable" -> AstVariable_equal(h, a, g, b)
      [] h[a].kind = "AstUnnamedVariable" -> AstUnnamedVariable_equal(h, a, g, b)
      [] h[a].kind = "AstCounter" -> AstCounter_equal(h, a, g, b)
      [] h[a].kind \in ConstantKinds -> AstConstant_equal(h, a, g, b)
      [] h[a].kind = "AstIntrinsicFunctor" -> AstIntrinsicFunctor_equal(h, a, g, b)
      [] h[a].kind = "AstUserDefinedFunctor" -> AstUserDefinedFunctor_equal(h, a, g, b)
      [] h[a].kind = "AstRecordInit" -> AstRecordInit_equal(h, a, g, b)
      [] h[a].kind = "AstTypeCast" -> AstTypeCast_equal(h, a, g, b)
      [] h[a].kind = "AstAggregator" -> AstAggregator_equal(h, a, g, b)
      [] h[a].kind = "AstSubroutineArgument" -> AstSubroutineArgument_equal(h, a, g, b)
      [] h[a].kind = "AstLiteral" -> AstLiteral_equal(h, a, g, b)

\* typeid(*node)
typeid(c) == c.kind

\* the comparison that goes to the payload without comparing the variants
operator_eq_payloadOnly(h, a, g, b) == equal(h, a, g, b)

\* AstNode::operator==: the variants are compared first, then the payload
operator_eq(h, a, g, b) ==
    IF typeid(h[a]) # typeid(g[b]) THEN "false" ELSE equal(h, a, g, b)


(* ------------------------- member functions --------------------------- *)

\* The variadic constructor: the operands are pushed, then the arity is
\* asserted.  `ok` is FALSE when the assertion fails.
AstIntrinsicFunctorVariadic(function, operands) ==
    [ok |-> isValidFunctorOpArity(function, Len(operands)),
     cell |-> [AstFunctor("AstIntrinsicFunctor", operands) EXCEPT !.function = function]]

\* AstFunctor::getArg; idx counts from 0
AstFunctor_getArg(c, idx) ==
    [ok |-> idx < Len(c.args),
     p |-> IF idx < Len(c.args) THEN c.args[idx + 1] ELSE 0]

\* setArg with the bound of the assertion off by one: idx = size passes
AstFunctor_setArg_offByOne(h, a, idx, arg) ==
    [ok |-> idx <= Len(h[a].args),
     h |-> IF idx < Len(h[a].args)
           THEN [Destroy(h, h[a].args[idx + 1]) EXCEPT ![a].args[idx + 1] = arg]
           ELSE h]

\* AstFunctor::setArg: the argument in the slot is destroyed, arg is moved in
AstFunctor_setArg(h, a, idx, arg) ==
    [ok |-> idx < Len(h[a].args),
     h |-> IF idx < Len(h[a].args)
           THEN [Destroy(h, h[a].args[idx + 1]) EXCEPT ![a].args[idx + 1] = arg]
           ELSE h]

AstFunctor_getArity(c) == Len(c.args)

AstIntrinsicFunctor_setFunction(h, a, functor) == [h EXCEPT ![a].function = functor]

AstVariable_setName(h, a, n) == [h EXCEPT ![a].name = n]

AstUserDefinedFunctor_setName(h, a, n) == [h EXCEPT ![a].name = n]

AstUserDefinedFunctor_add(h, a, arg) == [h EXCEPT ![a].args = Append(@, arg)]

\* add that puts the argument in front
AstRecordInit_add_front(h, a, arg) == [h EXCEPT ![a].args = <<arg>> \o @]

AstRecordInit_add(h, a, arg) == [h EXCEPT ![a].args = Append(@, arg)]

AstTypeCast_setType(h, a, t) == [h EXCEPT ![a].type = t]

\* the old target expression, if any, is destroyed
AstAggregator_setTargetExpression(h, a, arg) ==
    [(IF h[a].expr # 0 THEN Destroy(h, h[a].expr) ELSE h) EXCEPT ![a].expr = arg]

\* clearBodyLiterals that resets the target expression as well
AstAggregator_clearBodyLiterals_all(h, a) ==
    [b \in Addr |->
        IF b \in Reach(h, a) \ {a} THEN FreeCell
        ELSE IF b = a THEN [h[a] EXCEPT !.body = <<>>, !.expr = 0]
        ELSE h[b]]

AstAggregator_clearBodyLiterals(h, a) ==
    [b \in Addr |->
        IF \E i \in 1..Len(h[a].body) : b \in Reach(h, h[a].body[i]) THEN FreeCell
        ELSE IF b = a THEN [h[a] EXCEPT !.body = <<>>]
        ELSE h[b]]

AstAggregator_addBodyLiteral(h, a, lit) == [h EXCEPT ![a].body = Append(@, lit)]

(* ------------------------------ rewriting ----------------------------- *)

\* The node mappers the rewrite passes use here: one returns the node it is
\* given, one destroys it and returns a newly built node in its place.
Mappers == {"identity", "replace"}

map(h, m, p) ==
    IF m = "identity" THEN [h |-> h, p |-> p]
    ELSE LET made == New(h, IF h[p].kind = "AstLiteral" THEN AstLiteral("p")
                            ELSE AstVariable("y"))
         IN [h |-> Destroy(made.h, p), p |-> made.p]

\* for (auto& cur : s) cur = map(std::move(cur));  `calls` logs the nodes the
\* mapper was called with and `rets` the nodes it returned, in the order of
\* the calls
RECURSIVE mapAll(_, _, _)
mapAll(h, m, s) ==
    IF s = <<>> THEN [h |-> h, ps |-> <<>>, calls |-> <<>>]
    ELSE LET first == map(h, m, Head(s))
             rest == mapAll(first.h, m, Tail(s))
         IN [h |-> rest.h, ps |-> <<first.p>> \o rest.ps,
             calls |-> <<Head(s)>> \o rest.calls]

AstLeaf_apply(h, a, m) == [h |-> h, calls |-> <<>>, rets |-> <<>>]

\* apply whose loop starts at the second argument
AstFunctor_apply_skipFirst(h, a, m) ==
    LET r == mapAll(h, m, IF h[a].args = <<>> THEN <<>> ELSE Tail(h[a].args))
    IN [h |-> [r.h EXCEPT ![a].args =
                  IF h[a].args = <<>> THEN <<>> ELSE <<Head(h[a].args)>> \o r.ps],
        calls |-> r.calls, rets |-> r.ps]

AstFunctor_apply(h, a, m) ==
    LET r == mapAll(h, m, h[a].args)
    IN [h |-> [r.h EXCEPT ![a].args = r.ps], calls |-> r.calls, rets |-> r.ps]

AstRecordInit_apply(h, a, m) ==
    LET r == mapAll(h, m, h[a].args)
    IN [h |-> [r.h EXCEPT ![a].args = r.ps], calls |-> r.calls, rets |-> r.ps]

AstTypeCast_apply(h, a, m) ==
    LET r == map(h, m, h[a].value)
    IN [h |-> [r.h EXCEPT ![a].value = r.p], calls |-> <<h[a].value>>, rets |-> <<r.p>>]

AstAggregator_apply(h, a, m) ==
    LET e == IF h[a].expr # 0 THEN map(h, m, h[a].expr) ELSE [h |-> h, p |-> 0]
        r == mapAll(e.h, m, h[a].body)
    IN [h |-> [r.h EXCEPT ![a].expr = e.p, ![a].body = r.ps],
        calls |-> (IF h[a].expr # 0 THEN <<h[a].expr>> ELSE <<>>) \o r.calls,
        rets |-> (IF h[a].expr # 0 THEN <<e.p>> ELSE <<>>) \o r.ps]

\* the virtual call node->apply(mapper)
apply(h, a, m) ==
    CASE h[a].kind \in FunctorKinds -> AstFunctor_apply(h, a, m)
      [] h[a].kind = "AstRecordInit" -> AstRecordInit_apply(h, a, m)
      [] h[a].kind = "AstTypeCast" -> AstTypeCast_apply(h, a, m)
      [] h[a].kind = "AstAggregator" -> AstAggregator_apply(h, a, m)
      [] OTHER -> AstLeaf_apply(h, a, m)


(* ------------------------------- state -------------------------------- *)

\* what the client did last: the constructor or member function it called

Did(op) == [op |-> op]

\* The latest clone of a root and the root it was cloned from, while the
\* client owns both and has changed at most one of them: `snap` is the tree
\* that was cloned, `touched` the one changed since ("none", "orig", "copy").
NoClone == [orig |-> 0, copy |-> 0, touched |-> "none", snap |-> <<>>]

\* the constructor calls a client may make: <<class, text, number>>
LeafCalls ==
    {<<"AstVariable", "x", 0>>, <<"AstVariable", "y", 0>>,
     <<"AstUnnamedVariable", "", 0>>, <<"AstCounter", "", 0>>,
     <<"AstStringConstant", "a", 0>>, <<"AstNullConstant", "", 0>>,
     <<"AstNumberConstant", "", 0>>, <<"AstUnsignedConstant", "", 0>>,
     <<"AstFloatConstant", "", 0>>, <<"AstSubroutineArgument", "", 1>>}

FunctorCallSets ==
    {{<<"AstIntrinsicFunctor", "NEG", 0>>}, {<<"AstIntrinsicFunctor", "ADD", 0>>},
     {<<"AstUserDefinedFunctor", "foo", 0>>}}

AggregatorCallSets ==
    {{<<"AstAggregator", f, 0>>, <<"AstLiteral", "p", 0>>} : f \in AggregatorOps}

CallClone == <<"clone", "", 0>>
CallApply == <<"apply", "", 0>>

CompositeCallSets ==
    {{<<"AstIntrinsicFunctor", "ADD", 0>>, CallApply},
     {<<"AstIntrinsicFunctor", "ADD", 0>>, CallClone},
     {<<"AstUserDefinedFunctor", "foo", 0>>, CallClone}}
        \cup {{<<"AstRecordInit", "", 0>>, g} : g \in {CallClone, CallApply}}
        \cup {{<<"AstTypeCast", "number", 0>>, g} : g \in {CallClone, CallApply}}
        \cup {{<<"AstAggregator", "sum", 0>>, <<"AstLiteral", "p", 0>>, g} :
                  g \in {CallClone, CallApply}}

VariableX == <<"AstVariable", "x", 0>>
VariableY == <<"AstVariable", "y", 0>>

\* `vocabs` are the vocabularies of the clients: the calls one client makes

InitWith(vocabs) ==
    /\ heap = [a \in Addr |-> FreeCell]
    /\ roots = {}
    /\ symTable = <<>>
    /\ status = "running"
    /\ last = Did("none")
    /\ cl = NoClone
    /\ vocab \in vocabs

IsArgument(c) == c.kind \notin {"free", "AstLiteral"}
ArgRoots == {r \in roots : IsArgument(heap[r])}
LitRoots == {r \in roots : heap[r].kind = "AstLiteral"}

\* the operand lists of at most n different roots
Operands(n) ==
    UNION {{s \in [1..k -> ArgRoots] : \A i, j \in 1..k : i # j => s[i] # s[j]} : k \in 0..n}

\* the root of the tree a node is in
RootOf(a) == CHOOSE r \in roots : a \in Reach(heap, r)

\* Addresses carry no meaning: after each call the cells are renumbered in
\* the order in which a walk from the roots meets them (the roots in the
\* order of their addresses, each node before the nodes it owns).
OwnedSeq(c) ==
    c.args \o (IF c.value # 0 THEN <<c.value>> ELSE <<>>)
           \o (IF c.expr # 0 THEN <<c.expr>> ELSE <<>>) \o c.body

RECURSIVE Walk(_, _, _, _)
Walk(h, todo, seen, n) ==
    IF todo = <<>> \/ n = 0 THEN <<>>
    ELSE IF Head(todo) \in seen THEN Walk(h, Tail(todo), seen, n - 1)
    ELSE <<Head(todo)>>
            \o Walk(h, OwnedSeq(h[Head(todo)]) \o Tail(todo), seen \cup {Head(todo)}, n - 1)

\* the heap with each node moved to the address pos gives it
Renumbered(h, pos) ==
    [i \in Addr |->
        IF \A a \in Addr : pos[a] # i THEN FreeCell
        ELSE LET c == h[CHOOSE a \in Addr : pos[a] = i]
             IN [c EXCEPT !.args = [j \in 1..Len(@) |-> pos[@[j]]],
                          !.body = [j \in 1..Len(@) |-> pos[@[j]]],
                          !.value = IF @ = 0 THEN 0 ELSE pos[@],
                          !.expr = IF @ = 0 THEN 0 ELSE pos[@]]]

\* t is the root of the tree the call changes, 0 when it changes none
Touch(c, t) ==
    IF t = 0 \/ t \notin {c.orig, c.copy} THEN c
    ELSE IF t = c.orig /\ c.touched # "copy" THEN [c EXCEPT !.touched = "orig"]
    ELSE IF t = c.copy /\ c.touched # "orig" THEN [c EXCEPT !.touched = "copy"]
    ELSE NoClone

Positions(order) ==
    [a \in Addr |-> IF \E i \in 1..Len(order) : order[i] = a
                    THEN CHOOSE i \in 1..Len(order) : order[i] = a ELSE 0]

StepWith(h, rs, st, l, c) ==
    \E pos \in {Positions(Walk(h, [i \in 1..Cardinality(rs) |->
                      CHOOSE r \in rs : Cardinality({q \in rs : q < r}) = i - 1],
                {}, MaxNodes + MaxNodes + MaxNodes))} :
    /\ heap' = Renumbered(h, pos)
    /\ roots' = {pos[r] : r \in rs}
    /\ status' = st
    /\ last' = l
    /\ cl' = IF c.copy # 0 /\ {c.orig, c.copy} \subseteq rs
             THEN [c EXCEPT !.orig = pos[@], !.copy = pos[@]]
             ELSE NoClone
    /\ UNCHANGED vocab

\* The client builds a node and sets its source location: the operands are
\* moved into the new node.
Construct(call, cell, operands) ==
    /\ status = "running"
    /\ call \in vocab
    /\ FreeCount(heap) >= 1
    /\ \E loc \in Locations :
       LET made == New(heap, setSrcLoc(cell, loc))
       IN StepWith(made.h, (roots \ SeqRange(operands)) \cup {made.p}, "running",
                   Did(call[1]), cl)

\* A failed assertion ends the process: nothing of its memory remains.
Abort(op) == StepWith([a \in Addr |-> FreeCell], {}, "aborted", Did(op), NoClone)

(* ------------------------------ actions ------------------------------- *)

NewVariable(n) ==
    /\ Construct(<<"AstVariable", n, 0>>, AstVariable(n), <<>>)
    /\ UNCHANGED symTable

NewUnnamedVariable ==
    /\ Construct(<<"AstUnnamedVariable", "", 0>>, AstUnnamedVariable, <<>>)
    /\ UNCHANGED symTable

NewCounter ==
    /\ Construct(<<"AstCounter", "", 0>>, AstCounter, <<>>)
    /\ UNCHANGED symTable

NewStringConstant(c) ==
    /\ Construct(<<"AstStringConstant", c, 0>>, AstStringConstant(symTable, c), <<>>)
    /\ symTable' = lookupTable(symTable, c)

NewNumericConstant(numericType, bits) ==
    /\ Construct(<<ConstantKind(numericType), "", bits>>,
                 AstNumericConstant(numericType, FromBits(numericType, bits)), <<>>)
    /\ UNCHANGED symTable

NewNullConstant ==
    /\ Construct(<<"AstNullConstant", "", 0>>, AstNullConstant, <<>>)
    /\ UNCHANGED symTable

NewSubroutineArgument(n) ==
    /\ Construct(<<"AstSubroutineArgument", "", n>>, AstSubroutineArgument(n), <<>>)
    /\ UNCHANGED symTable

NewLiteral(n) ==
    /\ Construct(<<"AstLiteral", n, 0>>, AstLiteral(n), <<>>)
    /\ UNCHANGED symTable

NewIntrinsicFunctorVariadic(function, operands) ==
    /\ status = "running"
    /\ <<"AstIntrinsicFunctor", function, 0>> \in vocab
    /\ Len(operands) >= 1
    /\ FreeCount(heap) >= 1
    /\ LET made == AstIntrinsicFunctorVariadic(function, operands)
       IN IF made.ok
          THEN Construct(<<"AstIntrinsicFunctor", function, 0>>, made.cell, operands)
          ELSE Abort("AstIntrinsicFunctor")
    /\ UNCHANGED symTable

NewIntrinsicFunctorVector(function, operands) ==
    /\ Construct(<<"AstIntrinsicFunctor", function, 0>>,
                 AstIntrinsicFunctorVector(function, operands), operands)
    /\ UNCHANGED symTable

NewUserDefinedFunctor(name, operands) ==
    /\ Construct(<<"AstUserDefinedFunctor", name, 0>>,
                 AstUserDefinedFunctor(name, operands), operands)
    /\ UNCHANGED symTable

NewRecordInit ==
    /\ Construct(<<"AstRecordInit", "", 0>>, AstRecordInit, <<>>)
    /\ UNCHANGED symTable

NewTypeCast(value, type) ==
    /\ value \in ArgRoots
    /\ Construct(<<"AstTypeCast", type, 0>>, AstTypeCast(value, type), <<value>>)
    /\ UNCHANGED symTable

NewAggregator(fun) ==
    /\ Construct(<<"AstAggregator", fun, 0>>, AstAggregator(fun), <<>>)
    /\ UNCHANGED symTable

\* a member function that changes the node a; the roots in `moved` are moved
\* into the node
Mutate(op, a, kinds, h, moved) ==
    /\ status = "running"
    /\ heap[a].kind \in kinds
    /\ StepWith(h, roots \ moved, "running", Did(op), Touch(cl, RootOf(a)))
    /\ UNCHANGED symTable

VariableSetName(a, n) ==
    Mutate("setName", a, {"AstVariable"}, AstVariable_setName(heap, a, n), {})

\* the client asks for the operands and for the first index past them
GetArg(a, idx) ==
    /\ status = "running"
    /\ heap[a].kind \in FunctorKinds
    /\ idx <= AstFunctor_getArity(heap[a])
    /\ IF AstFunctor_getArg(heap[a], idx).ok
       THEN StepWith(heap, roots, "running", Did("getArg"), cl)
       ELSE Abort("getArg")
    /\ UNCHANGED symTable

SetArg(a, idx, arg) ==
    /\ status = "running"
    /\ heap[a].kind \in FunctorKinds
    /\ idx <= AstFunctor_getArity(heap[a])
    /\ arg \in ArgRoots \ {RootOf(a)}
    /\ LET set == AstFunctor_setArg(heap, a, idx, arg)
       IN IF set.ok
          THEN StepWith(set.h, roots \ {arg}, "running", Did("setArg"),
                        Touch(cl, RootOf(a)))
          ELSE Abort("setArg")
    /\ UNCHANGED symTable

SetFunction(a, functor) ==
    Mutate("setFunction", a, {"AstIntrinsicFunctor"},
           AstIntrinsicFunctor_setFunction(heap, a, functor), {})

FunctorSetName(a, n) ==
    Mutate("setName", a, {"AstUserDefinedFunctor"},
           AstUserDefinedFunctor_setName(heap, a, n), {})

FunctorAdd(a, arg) ==
    /\ heap[a].kind = "AstUserDefinedFunctor"
    /\ arg \in ArgRoots \ {RootOf(a)}
    /\ Mutate("add", a, {"AstUserDefinedFunctor"},
              AstUserDefinedFunctor_add(heap, a, arg), {arg})

RecordAdd(a, arg) ==
    /\ heap[a].kind = "AstRecordInit"
    /\ arg \in ArgRoots \ {RootOf(a)}
    /\ Mutate("add", a, {"AstRecordInit"}, AstRecordInit_add(heap, a, arg), {arg})

SetType(a, type) ==
    Mutate("setType", a, {"AstTypeCast"}, AstTypeCast_setType(heap, a, type), {})

SetTargetExpression(a, arg) ==
    /\ heap[a].kind = "AstAggregator"
    /\ arg \in ArgRoots \ {RootOf(a)}
    /\ Mutate("setTargetExpression", a, {"AstAggregator"},
              AstAggregator_setTargetExpression(heap, a, arg), {arg})

ClearBodyLiterals(a) ==
    Mutate("clearBodyLiterals", a, {"AstAggregator"},
           AstAggregator_clearBodyLiterals(heap, a), {})

AddBodyLiteral(a, lit) ==
    /\ heap[a].kind = "AstAggregator"
    /\ lit \in LitRoots \ {RootOf(a)}
    /\ Mutate("addBodyLiteral", a, {"AstAggregator"},
              AstAggregator_addBodyLiteral(heap, a, lit), {lit})

Apply(a, m) ==
    /\ CallApply \in vocab
    /\ a \in ArgRoots
    /\ m = "replace" => FreeCount(heap) >= 1
    /\ Mutate("apply", a, {heap[a].kind}, apply(heap, a, m).h, {})

Clone(a) ==
    /\ status = "running"
    /\ CallClone \in vocab
    /\ a \in roots
    /\ FreeCount(heap) >= Cardinality(Reach(heap, a))
    /\ LET made == clone(heap, a)
       IN StepWith(made.h, roots \cup {made.p}, "running", Did("clone"),
                   [orig |-> a, copy |-> made.p, touched |-> "none",
                    snap |-> Deep(heap, a)])
    /\ UNCHANGED symTable

(* ---------------------------- constructors ---------------------------- *)

NewLeaf ==
    \/ \E n \in VarNames : NewVariable(n)
    \/ NewUnnamedVariable
    \/ NewCounter
    \/ \E c \in Symbols : NewStringConstant(c)
    \/ \E t \in NumericKinds, b \in 0..(WordCount - 1) : NewNumericConstant(t, b)
    \/ NewNullConstant
    \/ \E n \in 0..1 : NewSubroutineArgument(n)

NewFunctor ==
    \/ \E f \in FunctorOps, s \in Operands(MaxIdx) : NewIntrinsicFunctorVariadic(f, s)
    \/ \E f \in FunctorOps, s \in Operands(MaxIdx) : NewIntrinsicFunctorVector(f, s)
    \/ \E n \in FunctorNames, s \in Operands(MaxIdx) : NewUserDefinedFunctor(n, s)

NewComposite ==
    \/ NewRecordInit
    \/ \E v \in Addr, t \in TypeNames : NewTypeCast(v, t)
    \/ \E f \in AggregatorOps : NewAggregator(f)
    \/ \E n \in AtomNames : NewLiteral(n)

FunctorCalls ==
    \/ \E a, arg \in Addr, i \in 0..MaxIdx : SetArg(a, i, arg)
    \/ \E a \in Addr, f \in FunctorOps : SetFunction(a, f)
    \/ \E a \in Addr, n \in FunctorNames : FunctorSetName(a, n)
    \/ \E a, arg \in Addr : FunctorAdd(a, arg)

AggregatorCalls ==
    \/ \E a, arg \in Addr : SetTargetExpression(a, arg)
    \/ \E a \in Addr : ClearBodyLiterals(a)
    \/ \E a, lit \in Addr : AddBodyLiteral(a, lit)

OtherCalls ==
    \/ \E a \in Addr, n \in VarNames : VariableSetName(a, n)
    \/ \E a, arg \in Addr : RecordAdd(a, arg)
    \/ \E a \in Addr, t \in TypeNames : SetType(a, t)

(* --------------------------- specifications --------------------------- *)

\* every variant, cloned and changed through its setters
Init ==
    InitWith({{VariableX, VariableY} \cup c : c \in CompositeCallSets}
                \cup {{l, <<"AstRecordInit", "", 0>>, CallClone, CallApply} : l \in LeafCalls})
Next ==
    \/ NewLeaf
    \/ NewFunctor
    \/ NewComposite
    \/ FunctorCalls
    \/ AggregatorCalls
    \/ OtherCalls
    \/ \E a \in Addr, m \in Mappers : Apply(a, m)
    \/ \E a \in Addr : Clone(a)
Spec == Init /\ [][Next]_vars

\* functors over variables
InitFunctor == InitWith({{VariableX, VariableY} \cup c : c \in FunctorCallSets})
NextFunctor ==
    \/ \E n \in VarNames : NewVariable(n)
    \/ NewFunctor
    \/ FunctorCalls
    \/ \E a \in Addr, i \in 0..MaxIdx : GetArg(a, i)
SpecFunctor == InitFunctor /\ [][NextFunctor]_vars

\* aggregators over variables and literals
InitAggregator == InitWith({{VariableX, VariableY} \cup c : c \in AggregatorCallSets})
NextAggregator ==
    \/ \E n \in VarNames : NewVariable(n)
    \/ \E n \in AtomNames : NewLiteral(n)
    \/ \E f \in AggregatorOps : NewAggregator(f)
    \/ AggregatorCalls
SpecAggregator == InitAggregator /\ [][NextAggregator]_vars

\* numeric constants of every value
InitConstant ==
    InitWith({{<<ConstantKind(t), "", b>>, CallClone} :
                 t \in NumericKinds, b \in 0..(WordCount - 1)})
NextConstant ==
    \/ \E t \in NumericKinds, b \in 0..(WordCount - 1) : NewNumericConstant(t, b)
    \/ \E a \in Addr : Clone(a)
SpecConstant == InitConstant /\ [][NextConstant]_vars

\* pairs of nodes of every two variants
InitPairs ==
    LET calls == LeafCalls \cup UNION (FunctorCallSets \cup AggregatorCallSets)
                           \cup {<<"AstRecordInit", "", 0>>, <<"AstTypeCast", "number", 0>>}
    IN InitWith({{VariableX, c, d} : c \in calls, d \in calls})
NextPairs ==
    \/ NewLeaf
    \/ NewFunctor
    \/ NewComposite
SpecPairs == InitPairs /\ [][NextPairs]_vars

(* ------------------------------- claims ------------------------------- *)

\* the root built by the latest constructor call or clone
Newest == CHOOSE r \in roots : \A q \in roots : q <= r

\* C1: constructing an intrinsic functor with a number of operands that the
\* operator does not declare fails, with either form of the constructor; so
\* whenever such a construction has returned, the functor it built has as
\* many operands as its operator declares.
C1_ConstructionChecksArity ==
    (status = "running" /\ last.op = "AstIntrinsicFunctor")
        => isValidFunctorOpArity(heap[Newest].function, AstFunctor_getArity(heap[Newest]))

\* C9: getArg(idx) and setArg(idx, arg) succeed exactly when idx is below the
\* arity.  An index out of range fails and neither reads nor writes anything;
\* an index in range reads the operand in slot idx, and setArg puts arg in
\* slot idx, keeps the arity and leaves every other slot as it was.
C9_ArgIndexChecked ==
    \A a \in Addr : heap[a].kind \in FunctorKinds =>
        \A idx \in 0..(MaxIdx + 1) :
            LET c == heap[a]
                arity == AstFunctor_getArity(c)
                got == AstFunctor_getArg(c, idx)
            IN /\ got.ok <=> idx < arity
               /\ got.p = (IF idx < arity THEN c.args[idx + 1] ELSE 0)
               /\ \A arg \in ArgRoots \ {RootOf(a)} :
                     LET set == AstFunctor_setArg(heap, a, idx, arg)
                     IN /\ set.ok <=> idx < arity
                        /\ ~set.ok => set.h = heap
                        /\ set.ok =>
                              /\ set.h[a] = [c EXCEPT !.args[idx + 1] = arg]
                              /\ AstFunctor_getArity(set.h[a]) = arity
                              /\ AstFunctor_getArg(set.h[a], idx).p = arg
                              /\ Deep(set.h, arg) = Deep(heap, arg)
                              /\ \A j \in (0..(arity - 1)) \ {idx} :
                                    /\ AstFunctor_getArg(set.h[a], j).p = c.args[j + 1]
                                    /\ Deep(set.h, c.args[j + 1]) = Deep(heap, c.args[j + 1])

\* a call of setArg with an index out of range has ended the run
C9_Witness == status = "aborted" /\ last.op = "setArg"

\* C10: the payload comparison equal() of every variant fails when it is
\* handed a node of another variant, and never answers true or false for such
\* a pair; constants of different kinds are such a pair.
C10_EqualRejectsOtherVariant ==
    \A a, b \in Addr :
        (IsArgument(heap[a]) /\ ~IsFree(heap, b) /\ typeid(heap[a]) # typeid(heap[b]))
            => equal(heap, a, heap, b) = "abort"

\* C4: operator== is false for two nodes of different variants, also for two
\* constants of different kinds that hold the same domain word.
C4_DifferentVariantsUnequal ==
    \A a, b \in Addr :
        (~IsFree(heap, a) /\ ~IsFree(heap, b) /\ heap[a].kind # heap[b].kind)
            => operator_eq(heap, a, heap, b) = "false"

\* a null constant next to a number constant built from 0: the same word
C4_Witness ==
    \E a, b \in Addr :
        /\ heap[a].kind = "AstNullConstant"
        /\ heap[b].kind = "AstNumberConstant"
        /\ heap[a].ramRepresentation = heap[b].ramRepresentation
        /\ last.op = "AstNumberConstant"

\* C8: a numeric constant built from v holds the bit pattern of v as its
\* domain word and getConstant() gives v back, for every value of every
\* numeric kind; the clone of a numeric constant holds the same word.
C8_NumericRoundTrip ==
    /\ \A t \in NumericKinds :
          \A v \in ValuesOf(t) :
             LET c == AstNumericConstant(t, v)
             IN /\ BitsOf("RamSigned", c.ramRepresentation) = BitsOf(t, v)
                /\ c.ramRepresentation \in RamDomainValues
                /\ AstNumericConstant_getConstant(c) = v
    /\ \A a \in Addr : heap[a].kind \in NumericConstantKinds =>
          /\ \E call \in vocab :
                /\ call[1] = heap[a].kind
                /\ BitsOf("RamSigned", heap[a].ramRepresentation) = call[3]
                /\ AstNumericConstant_getConstant(heap[a])
                      = FromBits(NumericTypeOf(heap[a].kind), call[3])
          /\ FreeCount(heap) >= 1 =>
                LET made == clone(heap, a)
                IN /\ made.h[made.p].kind = heap[a].kind
                   /\ made.h[made.p].ramRepresentation = heap[a].ramRepresentation

\* the unsigned constant with every bit set (the word -1) and its clone
C8_Witness ==
    /\ last.op = "clone"
    /\ cl.copy # 0
    /\ heap[cl.orig].kind = "AstUnsignedConstant"
    /\ AstNumericConstant_getConstant(heap[cl.orig]) = WordCount - 1
    /\ heap[cl.orig].ramRepresentation = 0 - 1
    /\ heap[cl.copy].ramRepresentation = 0 - 1

\* C7: the children of an aggregator are its target expression, if one is
\* set, followed by its body literals in the order they were added.  A new
\* aggregator has none; setTargetExpression replaces the target and keeps the
\* body and the operator; addBodyLiteral appends one literal and keeps the
\* target and the operator; clearBodyLiterals empties the body and keeps the
\* target and the operator.
C7_AggregatorChildren ==
    /\ \A f \in AggregatorOps : getChildNodes(AstAggregator(f)) = <<>>
    /\ \A a \in Addr : heap[a].kind = "AstAggregator" =>
          LET c == heap[a]
              kids == getChildNodes(c)
              target == IF c.expr # 0 THEN <<c.expr>> ELSE <<>>
          IN /\ kids = target \o c.body
             /\ \A arg \in ArgRoots \ {RootOf(a)} :
                   LET h2 == AstAggregator_setTargetExpression(heap, a, arg)
                   IN /\ getChildNodes(h2[a]) = <<arg>> \o c.body
                      /\ h2[a] = [c EXCEPT !.expr = arg]
                      /\ Deep(h2, arg) = Deep(heap, arg)
                      /\ DeepAll(h2, c.body) = DeepAll(heap, c.body)
             /\ \A lit \in LitRoots :
                   LET h2 == AstAggregator_addBodyLiteral(heap, a, lit)
                   IN /\ getChildNodes(h2[a]) = Append(kids, lit)
                      /\ h2[a] = [c EXCEPT !.body = Append(c.body, lit)]
                      /\ DeepAll(h2, Append(kids, lit)) = DeepAll(heap, Append(kids, lit))
             /\ LET h2 == AstAggregator_clearBodyLiterals(heap, a)
                IN /\ getChildNodes(h2[a]) = target
                   /\ h2[a] = [c EXCEPT !.body = <<>>]
                   /\ DeepAll(h2, target) = DeepAll(heap, target)

\* sum over x with one body literal, just added
C7_Witness ==
    /\ last.op = "addBodyLiteral"
    /\ \E a \in Addr :
          /\ heap[a].kind = "AstAggregator"
          /\ heap[a].fun = "sum"
          /\ heap[a].expr # 0
          /\ heap[heap[a].expr].name = "x"
          /\ Len(heap[a].body) = 1
          /\ getChildNodes(heap[a]) = <<heap[a].expr, heap[a].body[1]>>

C3_CloneIndependent ==
    /\ \A a \in Addr :
          (~IsFree(heap, a) /\ FreeCount(heap) >= Cardinality(Reach(heap, a))) =>
              LET made == clone(heap, a)
              IN Reach(made.h, made.p) \cap Live(heap) = {}
    /\ cl.copy # 0 =>
          /\ Reach(heap, cl.orig) \cap Reach(heap, cl.copy) = {}
          /\ cl.touched # "orig" => Deep(heap, cl.orig) = cl.snap
          /\ cl.touched # "copy" => Deep(heap, cl.copy) = cl.snap

\* a type cast of x to number was cloned and the variable in the clone
\* renamed to y
C3_Witness ==
    /\ cl.copy # 0
    /\ cl.touched = "copy"
    /\ last.op = "setName"
    /\ heap[cl.orig].kind = "AstTypeCast"
    /\ heap[cl.orig].type = "number"
    /\ heap[heap[cl.orig].value].name = "x"
    /\ heap[heap[cl.copy].value].kind = "AstVariable"
    /\ heap[heap[cl.copy].value].name = "y"

\* C5: apply(mapper) calls the mapper once for each child, in the order of
\* getChildNodes(), and puts what each call returns in the slot the child
\* came from; the number of children and the payload stay; a node without
\* children never calls the mapper and nothing changes.
C5_ApplyMapsEachChildOnce ==
    \A a \in Addr : IsArgument(heap[a]) =>
        \A m \in Mappers : (m = "replace" => FreeCount(heap) >= 1) =>
            LET c == heap[a]
                kids == getChildNodes(c)
                done == apply(heap, a, m)
                after == getChildNodes(done.h[a])
            IN /\ done.calls = kids
               /\ after = done.rets
               /\ Len(after) = Len(kids)
               /\ m = "identity" => after = kids /\ done.h = heap
               /\ m = "replace" =>
                     \A i \in 1..Len(kids) :
                        done.h[after[i]] = (IF heap[kids[i]].kind = "AstLiteral"
                                            THEN AstLiteral("p") ELSE AstVariable("y"))
               /\ [done.h[a] EXCEPT !.args = c.args, !.value = c.value,
                                    !.expr = c.expr, !.body = c.body] = c
               /\ c.kind \notin FunctorKinds \cup {"AstRecordInit", "AstTypeCast", "AstAggregator"}
                     => done.calls = <<>> /\ done.h = heap

\* an intrinsic functor whose two arguments the mapper has just replaced
C5_Witness ==
    /\ last.op = "apply"
    /\ \E a \in Addr :
          /\ heap[a].kind = "AstIntrinsicFunctor"
          /\ AstFunctor_getArity(heap[a]) = 2
          /\ \A i \in 1..2 : heap[heap[a].args[i]] = AstVariable("y")

\* C6: the children of a record, a functor and an aggregator are the nodes it
\* owns, in the order they were put in: the operands in the order the
\* constructor got them, an added argument or body literal after those
\* before it.  apply with the mapper that returns each child leaves the node
\* equal to what it was, with the same children.
C6_ChildrenInInsertionOrder ==
    /\ getChildNodes(AstRecordInit) = <<>>
    /\ \A s \in Operands(MaxIdx) :
          /\ \A f \in FunctorOps :
                /\ getChildNodes(AstIntrinsicFunctorVector(f, s)) = s
                /\ Len(s) >= 1 => getChildNodes(AstIntrinsicFunctorVariadic(f, s).cell) = s
          /\ \A n \in FunctorNames : getChildNodes(AstUserDefinedFunctor(n, s)) = s
    /\ \A a \in Addr : heap[a].kind \in FunctorKinds \cup {"AstRecordInit", "AstAggregator"} =>
          LET c == heap[a]
              kids == getChildNodes(c)
              done == apply(heap, a, "identity")
          IN /\ SeqRange(kids) = Owned(c)
             /\ Len(kids) = Cardinality(Owned(c))
             /\ operator_eq(heap, a, done.h, a) = "true"
             /\ getChildNodes(done.h[a]) = kids
             /\ Deep(done.h, a) = Deep(heap, a)
             /\ \A arg \in ArgRoots \ {RootOf(a)} :
                   /\ c.kind = "AstRecordInit" =>
                         getChildNodes(AstRecordInit_add(heap, a, arg)[a]) = Append(kids, arg)
                   /\ c.kind = "AstUserDefinedFunctor" =>
                         getChildNodes(AstUserDefinedFunctor_add(heap, a, arg)[a]) = Append(kids, arg)
             /\ \A lit \in LitRoots :
                   c.kind = "AstAggregator" =>
                      getChildNodes(AstAggregator_addBodyLiteral(heap, a, lit)[a]) = Append(kids, lit)

\* a record to which x was added and then y
C6_Witness ==
    /\ last.op = "add"
    /\ \E a \in Addr :
          /\ heap[a].kind = "AstRecordInit"
          /\ Len(heap[a].args) = 2
          /\ heap[heap[a].args[1]].name = "x"
          /\ heap[heap[a].args[2]].name = "y"
          /\ getChildNodes(heap[a]) = heap[a].args

\* C11: every intrinsic functor there is, however it was constructed and
\* whatever setFunction, setArg, apply and clone have done since, has as many
\* operands as its current operator declares:
\* isValidFunctorOpArity(getFunction(), getArity()).
C11_FunctorArityValid ==
    \A a \in Addr : heap[a].kind = "AstIntrinsicFunctor" =>
        isValidFunctorOpArity(heap[a].function, AstFunctor_getArity(heap[a]))

====
